---- MODULE Spec2Model ----
(***************************************************************************)
(* Model of upscaler/runsim.py: the trace encoder (rgb_decimal_to_binary,  *)
(* combine_binary_to_24_bit, write_combined_numbers_to_file), the result   *)
(* decoder (parse_image) and the software reference upscaler (race, with   *)
(* intdiv2).  Arrays are functions over 0-based index ranges, as in the    *)
(* source; strings are sequences of one-character strings.                 *)
(***************************************************************************)
EXTENDS Integers, Sequences, FiniteSets, TLC

\* ---------------------------------------------------------------- bounds
MaxH == 2
MaxW == 4
MaxCh == 4
MaxSlack == 2

\* Pixels the inputs are drawn from, (c0, c1, c2) with 8-bit channels.
Palette == << <<0, 0, 0>>, <<255, 255, 255>>, <<255, 0, 3>>, <<7, 128, 254>> >>
Seeds == 0..2
Bases == {0, 100}

\* A pixel of n channels: the palette entry, its channels repeated past the third.
PixelOf(s, n) == [k \in 1..n |-> Palette[(s % Len(Palette)) + 1][((k - 1) % 3) + 1]]

\* An h x w matrix of n-channel pixels: one seed per column, shifted per row.
MatrixOf(h, w, n, col, shift) ==
    [i \in 0..(h - 1) |-> [j \in 0..(w - 1) |-> PixelOf(col[j] + i * shift, n)]]

VARIABLES
    height, width,            \* the input image's size
    \* trace encoder
    matrix,                   \* image_to_rgb_matrix's result (height x width x channels)
    binary_matrix,            \* rgb_decimal_to_binary's result
    combined_numbers,         \* the list combine_binary_to_24_bit builds
    file,                     \* the trace file's characters
    fileWritten,              \* whether the trace file was opened for writing
    tpc, ti, tj,              \* the encoder's position
    \* race
    image_array, new_image,
    vexp,                     \* new_image as it stood when the linear pass ended
    rpc, ri, rj,              \* race's position
    last,                     \* what the last step of race read and computed
    halved,                   \* (operand, result) of every scalar halving of the last step
    touched,                  \* the (row, column) subscripts the last step used on new_image
    satur,                    \* which clamps have acted so far
    \* parse_image
    outfile, outimage,
    imageWritten,             \* whether cv2.imwrite ran
    ppc, pi, pj,              \* parse_image's position
    xfers                     \* every assignment made: destination cell and source index

traceVars == <<matrix, binary_matrix, combined_numbers, file, fileWritten, tpc, ti, tj>>
raceVars == <<image_array, new_image, vexp, rpc, ri, rj, last, halved, touched, satur>>
parseVars == <<outfile, outimage, imageWritten, ppc, pi, pj, xfers>>
vars == <<height, width, traceVars, raceVars, parseVars>>

\* ------------------------------------------------------- Python semantics
Zero == "0"
One == "1"
NL == "\n"

Rep(c, n) == [k \in 1..n |-> c]

RECURSIVE Bin(_)
\* bin(n)[2:] and format(n, 'b'): the binary digits of n >= 0, no leading zeros.
Bin(n) == IF n < 2 THEN << IF n = 1 THEN One ELSE Zero >>
          ELSE Bin(n \div 2) \o << IF n % 2 = 1 THEN One ELSE Zero >>

\* str.zfill and the '0<w>' format width: pad on the left, never cut.
ZFill(s, w) == IF Len(s) >= w THEN s ELSE Rep(Zero, w - Len(s)) \o s

\* np.binary_repr(v, width=8) of a non-negative v.
BinaryRepr(v, w) == ZFill(Bin(v), w)

RECURSIVE ParseBin(_)
\* int(s, 2)
ParseBin(s) == IF s = <<>> THEN 0
               ELSE 2 * ParseBin(SubSeq(s, 1, Len(s) - 1))
                    + (IF s[Len(s)] = One THEN 1 ELSE 0)

RECURSIVE BitOr(_, _)
\* a | b on non-negative integers
BitOr(a, b) == IF a = 0 THEN b
               ELSE IF b = 0 THEN a
               ELSE 2 * BitOr(a \div 2, b \div 2)
                    + (IF a % 2 = 1 \/ b % 2 = 1 THEN 1 ELSE 0)

\* A subscript n on an axis of length len: negative subscripts count from the
\* end; anything outside -len..len-1 raises IndexError.
IndexOk(n, len) == n >= -len /\ n < len
Resolve(n, len) == IF n < 0 THEN n + len ELSE n

\* ------------------------------------------------------------ the encoder
\* rgb_decimal_to_binary: np.binary_repr over every element.
RgbDecimalToBinary(m) ==
    [i \in DOMAIN m |-> [j \in DOMAIN m[i] |->
        [k \in DOMAIN m[i][j] |-> BinaryRepr(m[i][j][k], 8)]]]

\* The forgotten shift: combined | v.
PackStepNoShift(combined, v) == BitOr(combined, v)

\* combined = (combined << 8) | v
PackStep(combined, v) == BitOr(combined * 256, v)

\* format(combined, 'b'): no width.
FormatCombinedNoWidth(combined) == Bin(combined)

\* format(combined, '024b')
FormatCombined(combined) == ZFill(Bin(combined), 24)

\* A missing channel read as zero instead of raising.
PackPixelPadded(px) ==
    LET v(k) == IF IndexOk(k, Len(px)) THEN ParseBin(px[Resolve(k, Len(px)) + 1]) ELSE 0
    IN  [ok |-> TRUE, value |-> PackStep(PackStep(PackStep(0, v(0)), v(1)), v(2))]

\* The loop over k in range(3) for one pixel px of binary_matrix: the packed
\* value, or the IndexError of binary_matrix[i, j, k] on a missing channel.
PackPixel(px) ==
    LET v(k) == ParseBin(px[Resolve(k, Len(px)) + 1])
    IN  IF \A k \in 0..2 : IndexOk(k, Len(px))
        THEN [ok |-> TRUE, value |-> PackStep(PackStep(PackStep(0, v(0)), v(1)), v(2))]
        ELSE [ok |-> FALSE, value |-> 0]

\* '0001' + ('0' * 52) + combined_binary
InstructionWord(combined) ==
    <<Zero, Zero, Zero, One>> \o Rep(Zero, 52) \o FormatCombined(combined)

\* The three literal lines write_combined_numbers_to_file appends.
Trailer1 == <<Zero, One, One>> \o Rep(Zero, 45) \o Rep(One, 32)
Trailer2 == <<Zero, One, Zero, One>> \o Rep(Zero, 76)
Trailer3 == <<Zero, Zero, One, One>> \o Rep(Zero, 76)

RECURSIVE WriteAll(_)
\* for num in combined_numbers: f.write(f"{num}\n")
WriteAll(nums) == IF nums = <<>> THEN <<>>
                  ELSE Head(nums) \o <<NL>> \o WriteAll(Tail(nums))

\* The whole text write_combined_numbers_to_file leaves in the file.
FileText(nums) == WriteAll(nums) \o Trailer1 \o <<NL>> \o Trailer2 \o <<NL>> \o Trailer3

NoLast == [phase |-> "none", i |-> 0, j |-> 0,
           in0 |-> <<0, 0, 0>>, in1 |-> <<0, 0, 0>>, in2 |-> <<0, 0, 0>>,
           in3 |-> <<0, 0, 0>>, raw |-> <<0, 0, 0>>,
           stored |-> FALSE, dest |-> <<0, 0>>]

TraceIdle ==
    /\ matrix = <<>> /\ binary_matrix = <<>> /\ combined_numbers = <<>>
    /\ file = <<>> /\ fileWritten = FALSE /\ tpc = "idle" /\ ti = 0 /\ tj = 0
RaceIdle ==
    /\ image_array = <<>> /\ new_image = <<>> /\ vexp = <<>>
    /\ rpc = "idle" /\ ri = 0 /\ rj = 0
    /\ last = NoLast /\ halved = {} /\ touched = {} /\ satur = {}
ParseIdle ==
    /\ outfile = <<>> /\ outimage = <<>> /\ imageWritten = FALSE
    /\ ppc = "idle" /\ pi = 0 /\ pj = 0 /\ xfers = <<>>

\* The script's lines 260-265 start from a matrix; here it may carry any
\* number of channels from 1 to MaxCh.
InitTrace ==
    /\ height \in 1..MaxH /\ width \in 1..MaxW
    /\ \E n \in 1..MaxCh, col \in [0..(width - 1) -> Seeds] :
          matrix = MatrixOf(height, width, n, col, 1)
    /\ binary_matrix = <<>> /\ combined_numbers = <<>>
    /\ file = <<>> /\ fileWritten = FALSE
    /\ tpc = "binary" /\ ti = 0 /\ tj = 0
    /\ RaceIdle /\ ParseIdle

ToBinary ==
    /\ tpc = "binary"
    /\ binary_matrix' = RgbDecimalToBinary(matrix)
    /\ tpc' = "combine"
    /\ UNCHANGED <<height, width, matrix, combined_numbers, file, fileWritten, ti, tj,
                   raceVars, parseVars>>

\* One pass of the inner loop body of combine_binary_to_24_bit, at (ti, tj).
CombinePixel ==
    /\ tpc = "combine"
    /\ LET p == PackPixel(binary_matrix[ti][tj])
           lastOne == ti = height - 1 /\ tj = width - 1
       IN  IF p.ok
           THEN /\ combined_numbers' = Append(combined_numbers, InstructionWord(p.value))
                /\ tj' = IF tj = width - 1 THEN 0 ELSE tj + 1
                /\ ti' = IF tj = width - 1 THEN ti + 1 ELSE ti
                /\ tpc' = IF lastOne THEN "write" ELSE "combine"
           ELSE /\ tpc' = "error"
                /\ UNCHANGED <<combined_numbers, ti, tj>>
    /\ UNCHANGED <<height, width, matrix, binary_matrix, file, fileWritten,
                   raceVars, parseVars>>

WriteCombinedNumbersToFile ==
    /\ tpc = "write"
    /\ file' = FileText(combined_numbers)
    /\ fileWritten' = TRUE
    /\ tpc' = "done"
    /\ UNCHANGED <<height, width, matrix, binary_matrix, combined_numbers, ti, tj,
                   raceVars, parseVars>>

NextTrace == ToBinary \/ CombinePixel \/ WriteCombinedNumbersToFile

SpecTrace == InitTrace /\ [][NextTrace]_vars

\* ------------------------------------------------------ encoder properties
Channels == Len(matrix[0][0])

RECURSIVE SplitLines(_)
\* A text read back as its newline-separated lines.
SplitLines(s) ==
    IF \A k \in 1..Len(s) : s[k] # NL THEN <<s>>
    ELSE LET p == CHOOSE k \in 1..Len(s) : s[k] = NL /\ \A m \in 1..(k - 1) : s[m] # NL
         IN  <<SubSeq(s, 1, p - 1)>> \o SplitLines(SubSeq(s, p + 1, Len(s)))

\* The last 24 characters of a word, read as three 8-bit fields.
DecodePayload(word) ==
    LET p == SubSeq(word, Len(word) - 23, Len(word))
    IN  <<ParseBin(SubSeq(p, 1, 8)), ParseBin(SubSeq(p, 9, 16)), ParseBin(SubSeq(p, 17, 24))>>

\* C1: for a 3-channel matrix the finished trace file holds height*width
\* instruction lines, one per pixel in row-major order, each 80 characters of
\* 0/1 starting with 0001 and 52 zeros, and then exactly the three fixed
\* trailer lines.
C1_TraceLayout ==
    (tpc = "done" /\ Channels = 3) =>
        LET lines == SplitLines(file)
            n == height * width
        IN  /\ Len(lines) = n + 3
            /\ \A k \in 1..n :
                  LET px == matrix[(k - 1) \div width][(k - 1) % width]
                  IN  /\ Len(lines[k]) = 80
                      /\ \A c \in 1..80 : lines[k][c] \in {Zero, One}
                      /\ SubSeq(lines[k], 1, 4) = <<Zero, Zero, Zero, One>>
                      /\ SubSeq(lines[k], 5, 56) = Rep(Zero, 52)
                      /\ ParseBin(SubSeq(lines[k], 57, 80))
                           = px[1] * 65536 + px[2] * 256 + px[3]
            /\ lines[n + 1] = Trailer1
            /\ lines[n + 2] = Trailer2
            /\ lines[n + 3] = Trailer3

C1_Witness ==
    /\ tpc = "done" /\ Channels = 3 /\ height = 2 /\ width >= 2
    /\ matrix[0][0] = <<0, 0, 0>> /\ matrix[1][1] = <<7, 128, 254>>
    /\ Len(file) = 81 * height * width + 242

\* C2: splitting the last 24 bits of instruction word k into three 8-bit
\* fields, most significant first, gives back the (R, G, B) of pixel
\* (k div width, k mod width).
C2_RoundTrip ==
    Channels = 3 =>
        \A k \in 0..(Len(combined_numbers) - 1) :
            DecodePayload(combined_numbers[k + 1]) = matrix[k \div width][k % width]

C2_Witness ==
    /\ tpc = "done" /\ Channels = 3 /\ width >= 2
    /\ Len(combined_numbers) = height * width
    /\ matrix[0][1] = <<255, 0, 3>>
    /\ DecodePayload(combined_numbers[2]) = <<255, 0, 3>>

SamplesOf(len, base) == [n \in 1..len |-> (base + n - 1) % 256]

\* np.zeros((rows, cols, 3))
Zeros3(rows, cols) == [i \in 0..(rows - 1) |-> [j \in 0..(cols - 1) |-> <<0, 0, 0>>]]

\* 3*(2*height)*(2*width), the length parse_image's loops cover.
Expected == 3 * (2 * height) * (2 * width)

\* The subscript one too far.
SampleIndexOffByOne(i, j, new_h_res, off) == (i * new_h_res + j) * 3 + off + 1

\* (i*new_h_res + j)*3 + off
SampleIndex(i, j, new_h_res, off) == (i * new_h_res + j) * 3 + off

\* No reversal: channel c from offset c.
ChannelSourceSame(c) == c

\* The offset destination channel c is read from: 0 <- +2, 1 <- +1, 2 <- +0.
ChannelSource(c) == 2 - c

InitParse ==
    /\ height \in 1..MaxH /\ width \in 1..MaxW
    /\ \E d \in (0 - MaxSlack)..MaxSlack, base \in Bases :
          outfile = SamplesOf(Expected + d, base)
    /\ outimage = Zeros3(2 * height, 2 * width)
    /\ imageWritten = FALSE
    /\ ppc = "loop" /\ pi = 0 /\ pj = 0 /\ xfers = <<>>
    /\ TraceIdle /\ RaceIdle

\* One pass of the inner loop body of parse_image, at (pi, pj): three
\* assignments in source order, stopping at the first IndexError.
ParsePixel ==
    /\ ppc = "loop"
    /\ LET new_v_res == 2 * height
           new_h_res == 2 * width
           n == Len(outfile)
           idx(c) == SampleIndex(pi, pj, new_h_res, ChannelSource(c))
           ok(c) == \A b \in 0..c : IndexOk(idx(b), n)
           val(c) == outfile[Resolve(idx(c), n) + 1]
           done == {c \in 0..2 : ok(c)}
           lastOne == pi = new_v_res - 1 /\ pj = new_h_res - 1
       IN  /\ outimage' = [outimage EXCEPT ![pi][pj] =
                              [c \in 1..3 |-> IF (c - 1) \in done THEN val(c - 1) ELSE @[c]]]
           /\ xfers' = xfers \o
                 [k \in 1..Cardinality(done) |->
                     [dst |-> <<pi, pj, k - 1>>, src |-> Resolve(idx(k - 1), n)]]
           /\ IF ok(2)
              THEN /\ pj' = IF pj = new_h_res - 1 THEN 0 ELSE pj + 1
                   /\ pi' = IF pj = new_h_res - 1 THEN pi + 1 ELSE pi
                   /\ ppc' = IF lastOne THEN "write" ELSE "loop"
              ELSE /\ ppc' = "error"
                   /\ UNCHANGED <<pi, pj>>
    /\ UNCHANGED <<height, width, outfile, imageWritten, traceVars, raceVars>>

\* cv2.imwrite(path, outimage)
ImWrite ==
    /\ ppc = "write"
    /\ imageWritten' = TRUE
    /\ ppc' = "done"
    /\ UNCHANGED <<height, width, outfile, outimage, pi, pj, xfers, traceVars, raceVars>>

NextParse == ParsePixel \/ ImWrite

SpecParse == InitParse /\ [][NextParse]_vars

C5_ChannelMapping ==
    (ppc \in {"write", "done"} /\ Len(outfile) = Expected) =>
        /\ \A i \in 0..(2 * height - 1), j \in 0..(2 * width - 1), c \in 0..2 :
              /\ outimage[i][j][c + 1] = outfile[3 * (i * 2 * width + j) + (2 - c) + 1]
              /\ \E k \in 1..Len(xfers) : xfers[k].dst = <<i, j, c>>
        /\ \A n \in 0..(Len(outfile) - 1) :
              Cardinality({k \in 1..Len(xfers) : xfers[k].src = n}) = 1

C5_Witness ==
    /\ ppc = "done" /\ Len(outfile) = Expected /\ height = 2 /\ width = 2
    /\ outfile[1] = 100
    /\ outimage[0][0] = <<102, 101, 100>>
    /\ outimage[3][3] = <<147, 146, 145>>

\* ------------------------------------------------------------------- race
\* data[i]/2 on a float holding an integer: the floor of the quotient and
\* whether a half remains above it.
TrueDiv2(x) == [fl |-> x \div 2, half |-> x % 2]

\* Rounding down, as // or math.floor would.
IntFloor(q) == q.fl

\* int(): the fraction is dropped, toward zero.
PyInt(q) == IF q.fl >= 0 \/ q.half = 0 THEN q.fl ELSE q.fl + 1

\* intdiv2: result[i] = int(data[i]/2) for the three channels.
intdiv2(data) == [c \in 1..3 |-> PyInt(TrueDiv2(data[c]))]

VAdd(a, b) == [c \in 1..3 |-> a[c] + b[c]]
VSub(a, b) == [c \in 1..3 |-> a[c] - b[c]]
VScale(k, a) == [c \in 1..3 |-> k * a[c]]
ZeroVec == <<0, 0, 0>>

\* No saturation.
NoClamp(x) == x

\* if t3210[color] < 0: 0; elif t3210[color] > 255: 255
ClampChannel(x) == IF x < 0 THEN 0 ELSE IF x > 255 THEN 255 ELSE x

\* new_image[r, c, :] with numpy's subscripts (negative ones count from the end).
At(img, r, c) == img[Resolve(r, 2 * height)][Resolve(c, 2 * width)]

\* The columns the cubic pass subscripts for source column j.
In0Column(j) == 2 * j - 3
In1Column(j) == 2 * j
In2Column(j) == 2 * j + 2
In3Column(j) == 2 * j + 4

\* The cubic value stored on the anchor's own column.
CubicColumnAnchor(j) == 2 * j

\* The column the cubic value is stored at.
CubicColumn(j) == 2 * j + 1

\* The coefficients and the final computation, before the clamp.
T1(in0, in2) == VSub(intdiv2(in2), intdiv2(in0))
T2(in0, in1, in2, in3) ==
    VSub(VAdd(VSub(in0, VAdd(VScale(2, in1), intdiv2(in1))), VScale(2, in2)), intdiv2(in3))
T3(in0, in1, in2, in3) ==
    VAdd(VSub(VAdd(VAdd(VScale(-1, intdiv2(in0)), in1), intdiv2(in1)),
              VAdd(in2, intdiv2(in2))),
         intdiv2(in3))
T32(in0, in1, in2, in3) == VAdd(intdiv2(T3(in0, in1, in2, in3)), T2(in0, in1, in2, in3))
T321(in0, in1, in2, in3) == VAdd(intdiv2(T32(in0, in1, in2, in3)), T1(in0, in2))
T3210(in0, in1, in2, in3) == VAdd(intdiv2(T321(in0, in1, in2, in3)), in1)

\* Every (operand, result) channel pair of intdiv2 over the given operands.
Halvings(operands) == {<<x[c], intdiv2(x)[c]>> : x \in operands, c \in 1..3}

InitRace ==
    /\ height \in 1..MaxH /\ width \in 1..MaxW
    /\ \E col \in [0..(width - 1) -> Seeds], shift \in Seeds :
          image_array = MatrixOf(height, width, 3, col, shift)
    /\ new_image = Zeros3(2 * height, 2 * width)
    /\ vexp = <<>>
    /\ rpc = "anchor" /\ ri = 0 /\ rj = 0
    /\ last = NoLast /\ halved = {} /\ touched = {} /\ satur = {}
    /\ TraceIdle /\ ParseIdle

\* new_image[2 * i, 2 * j, :] = image_array[i, j, :]
PlaceAnchor ==
    /\ rpc = "anchor"
    /\ new_image' = [new_image EXCEPT ![2 * ri][2 * rj] = image_array[ri][rj]]
    /\ last' = [NoLast EXCEPT !.phase = "anchor", !.i = ri, !.j = rj,
                              !.stored = TRUE, !.dest = <<2 * ri, 2 * rj>>]
    /\ touched' = {<<2 * ri, 2 * rj>>}
    /\ halved' = {}
    /\ rj' = IF rj = width - 1 THEN 0 ELSE rj + 1
    /\ ri' = IF rj < width - 1 THEN ri ELSE IF ri = height - 1 THEN 0 ELSE ri + 1
    /\ rpc' = IF ri = height - 1 /\ rj = width - 1 THEN "linear" ELSE "anchor"
    /\ UNCHANGED <<height, width, image_array, vexp, satur, traceVars, parseVars>>

\* One pass of the body of the "linear values" loops, at (ri, rj).
LinearStep ==
    /\ rpc = "linear"
    /\ LET upper == At(new_image, 2 * ri, 2 * rj)
           bottom == ri = height - 1
           lower == At(new_image, 2 * ri + 2, 2 * rj)
           value == IF bottom THEN intdiv2(upper)
                    ELSE VAdd(intdiv2(upper), intdiv2(lower))
           lastOne == ri = height - 1 /\ rj = width - 1
           after == [new_image EXCEPT ![2 * ri + 1][2 * rj] = value]
       IN  /\ new_image' = after
           /\ vexp' = IF lastOne THEN after ELSE vexp
           /\ last' = [NoLast EXCEPT !.phase = "linear", !.i = ri, !.j = rj,
                                     !.raw = value, !.stored = TRUE,
                                     !.dest = <<2 * ri + 1, 2 * rj>>]
           /\ touched' = {<<2 * ri, 2 * rj>>, <<2 * ri + 1, 2 * rj>>}
                           \cup (IF bottom THEN {} ELSE {<<2 * ri + 2, 2 * rj>>})
           /\ halved' = Halvings(IF bottom THEN {upper} ELSE {upper, lower})
           /\ rj' = IF rj = width - 1 THEN 0 ELSE rj + 1
           /\ ri' = IF rj < width - 1 THEN ri ELSE IF ri = height - 1 THEN 0 ELSE ri + 1
           /\ rpc' = IF lastOne THEN "cubic" ELSE "linear"
    /\ UNCHANGED <<height, width, image_array, satur, traceVars, parseVars>>

\* One pass of the body of the "cubic values" loops, at row ri and source
\* column rj.
CubicStep ==
    /\ rpc = "cubic"
    /\ LET new_h_res == 2 * height
           v_res == width
           in0 == IF rj = 0 THEN ZeroVec ELSE At(new_image, ri, In0Column(rj))
           in1 == At(new_image, ri, In1Column(rj))
           in3 == IF rj >= v_res - 2 THEN ZeroVec ELSE At(new_image, ri, In3Column(rj))
           skip == rj = v_res - 1
           in2 == IF skip THEN ZeroVec ELSE At(new_image, ri, In2Column(rj))
           raw == T3210(in0, in1, in2, in3)
           t3210 == [c \in 1..3 |-> ClampChannel(raw[c])]
           lastOne == ri = new_h_res - 1 /\ rj = v_res - 1
       IN  /\ new_image' = IF skip THEN new_image
                           ELSE [new_image EXCEPT ![ri][Resolve(CubicColumn(rj), 2 * width)] = t3210]
           /\ last' = [phase |-> "cubic", i |-> ri, j |-> rj,
                       in0 |-> in0, in1 |-> in1, in2 |-> in2, in3 |-> in3,
                       raw |-> IF skip THEN ZeroVec ELSE raw,
                       stored |-> ~skip, dest |-> <<ri, CubicColumn(rj)>>]
           /\ touched' = {<<ri, In1Column(rj)>>}
                           \cup (IF rj = 0 THEN {} ELSE {<<ri, In0Column(rj)>>})
                           \cup (IF rj >= v_res - 2 THEN {} ELSE {<<ri, In3Column(rj)>>})
                           \cup (IF skip THEN {}
                                 ELSE {<<ri, In2Column(rj)>>, <<ri, CubicColumn(rj)>>})
           /\ halved' = IF skip THEN {}
                        ELSE Halvings({in0, in1, in2, in3, T3(in0, in1, in2, in3),
                                       T32(in0, in1, in2, in3), T321(in0, in1, in2, in3)})
           /\ satur' = IF skip THEN satur
                       ELSE satur \cup (IF \E c \in 1..3 : raw[c] < 0 THEN {"low"} ELSE {})
                                  \cup (IF \E c \in 1..3 : raw[c] > 255 THEN {"high"} ELSE {})
           /\ rj' = IF rj = v_res - 1 THEN 0 ELSE rj + 1
           /\ ri' = IF rj < v_res - 1 THEN ri ELSE IF ri = new_h_res - 1 THEN 0 ELSE ri + 1
           /\ rpc' = IF lastOne THEN "done" ELSE "cubic"
    /\ UNCHANGED <<height, width, image_array, vexp, traceVars, parseVars>>

NextRace == PlaceAnchor \/ LinearStep \/ CubicStep

SpecRace == InitRace /\ [][NextRace]_vars

\* --------------------------------------------------------- race properties
\* Halving as the specification words it: toward zero.
TruncHalf(x) == IF x >= 0 THEN x \div 2 ELSE 0 - ((0 - x) \div 2)
TruncHalfVec(a) == [c \in 1..3 |-> TruncHalf(a[c])]

\* t3210 as the specification's formulas give it from four taps.
StatedT3210(in0, in1, in2, in3) ==
    LET h(a) == TruncHalfVec(a)
        t0 == in1
        t1 == VSub(h(in2), h(in0))
        t2 == VSub(VAdd(VSub(in0, VAdd(VScale(2, in1), h(in1))), VScale(2, in2)), h(in3))
        t3 == VAdd(VSub(VAdd(VAdd(VScale(-1, h(in0)), in1), h(in1)), VAdd(in2, h(in2))),
                   h(in3))
        t32 == VAdd(h(t3), t2)
        t321 == VAdd(h(t32), t1)
    IN  VAdd(h(t321), t0)

SatVec(a) == [c \in 1..3 |-> IF a[c] < 0 THEN 0 ELSE IF a[c] > 255 THEN 255 ELSE a[c]]

\* C4 as stated: the value the cubic pass stores at column 2j+1 of a row is the
\* clamped t3210 of taps taken from the image as the vertical pass left it
\* (in1 at 2j, in2 at 2j+2, in3 at 2j+4 or zero, in0 at 2j-3 or zero), and is
\* the zero vector for j = width-1.
C4_Original ==
    last.phase = "cubic" =>
        LET i == last.i
            j == last.j
            tap(c) == At(vexp, i, c)
            in0 == IF j > 0 THEN tap(2 * j - 3) ELSE ZeroVec
            in1 == tap(2 * j)
            in2 == tap(2 * j + 2)
            in3 == IF j <= width - 3 THEN tap(2 * j + 4) ELSE ZeroVec
        IN  IF j = width - 1
            THEN new_image[i][2 * j + 1] = ZeroVec
            ELSE new_image[i][2 * j + 1] = SatVec(StatedT3210(in0, in1, in2, in3))

\* C6: every channel of every pixel of the image race computes lies in 0..255,
\* in the finished image and at every step before.
C6_Range ==
    rpc \in {"anchor", "linear", "cubic", "done"} =>
        \A i \in 0..(2 * height - 1), j \in 0..(2 * width - 1), c \in 1..3 :
            new_image[i][j][c] \in 0..255

C6_Witness ==
    /\ rpc = "done" /\ satur = {"low", "high"} /\ height = 2
    /\ \E j \in 0..(width - 2) : \E c \in 1..3 : new_image[1][2 * j + 1][c] = 255
    /\ new_image[0][2 * width - 1] = ZeroVec

\* C7: once the anchors are placed, new_image[2i, 2j] = input[i, j] in every
\* later state, and no step of the linear or cubic pass stores into a cell
\* whose row and column are both even.
C7_Anchors ==
    /\ rpc \in {"linear", "cubic", "done"} =>
          \A i \in 0..(height - 1), j \in 0..(width - 1) :
              new_image[2 * i][2 * j] = image_array[i][j]
    /\ (last.phase \in {"linear", "cubic"} /\ last.stored) =>
          ~(last.dest[1] % 2 = 0 /\ last.dest[2] % 2 = 0)

C7_Witness ==
    /\ rpc = "done" /\ height = 2 /\ width >= 3
    /\ image_array[1][1] = <<7, 128, 254>>
    /\ new_image[2][2] = <<7, 128, 254>>
    /\ new_image[2][3] # ZeroVec /\ new_image[3][2] # ZeroVec

\* C8: every halving race performs rounds toward zero, negative operands
\* included, and intdiv2 of -3 is -1.
C8_TowardZero ==
    /\ \A p \in halved : p[2] = TruncHalf(p[1])
    /\ intdiv2(<<-3, 3, -1>>) = <<-1, 1, 0>>

C8_Witness ==
    /\ last.phase = "cubic"
    /\ \E p \in halved : p[1] < 0 /\ p[1] % 2 = 1 /\ p[2] = 0 - ((0 - p[1]) \div 2)
    /\ \E p \in halved : p[1] > 0 /\ p[1] % 2 = 1

\* C10 as stated: every subscript race uses on new_image is a row in
\* 0..2*height-1 and a column in 0..2*width-1, none negative.
C10_Original ==
    \A t \in touched : t[1] \in 0..(2 * height - 1) /\ t[2] \in 0..(2 * width - 1)

====
